---------------------------- MODULE Spec2Model ----------------------------
(***************************************************************************)
(* Model of the AmaHunter API (src/main.py): the price resolver            *)
(* oxylabs_amazon_price, the price normalisation it applies to structured  *)
(* and scraped text, and the endpoints compare, history, create_alert,     *)
(* run_alerts, test_email, debug and root.                                 *)
(*                                                                         *)
(* Text is a sequence of one-character strings.  A decimal amount is a     *)
(* record [m, e] standing for m / 10^e, kept canonical (no trailing zero   *)
(* in the fraction), so that e is the number of fractional digits.  The    *)
(* binary rounding of Python floats is not modelled.                       *)
(***************************************************************************)
EXTENDS Integers, Sequences, FiniteSets, TLC

\* ------------------------------------------------------------------ text

\* U+00A0 and U+202F, one element each
NBSP == "NBSP"
NNBSP == "NNBSP"
\* a line feed
NL == "NL"

Digits == {"0", "1", "2", "3", "4", "5", "6", "7", "8", "9"}

\* what Python's str.strip, float() and the regex class \s treat as white space
Whitespace == {" ", NL, NBSP, NNBSP}

DigitVal(c) ==
    CASE c = "0" -> 0 [] c = "1" -> 1 [] c = "2" -> 2 [] c = "3" -> 3
      [] c = "4" -> 4 [] c = "5" -> 5 [] c = "6" -> 6 [] c = "7" -> 7
      [] c = "8" -> 8 [] c = "9" -> 9

DigitChar(d) ==
    CASE d = 0 -> "0" [] d = 1 -> "1" [] d = 2 -> "2" [] d = 3 -> "3"
      [] d = 4 -> "4" [] d = 5 -> "5" [] d = 6 -> "6" [] d = 7 -> "7"
      [] d = 8 -> "8" [] d = 9 -> "9"

RECURSIVE Pow10(_)
Pow10(n) == IF n = 0 THEN 1 ELSE 10 * Pow10(n - 1)

\* str.replace(pat, rep): every non-overlapping occurrence, left to right
RECURSIVE Replace(_, _, _)
Replace(s, pat, rep) ==
    IF Len(s) < Len(pat) THEN s
    ELSE IF SubSeq(s, 1, Len(pat)) = pat
         THEN rep \o Replace(SubSeq(s, Len(pat) + 1, Len(s)), pat, rep)
         ELSE <<Head(s)>> \o Replace(Tail(s), pat, rep)

\* str.strip()
RECURSIVE LStrip(_)
LStrip(s) ==
    IF s # <<>> /\ Head(s) \in Whitespace THEN LStrip(Tail(s)) ELSE s

RECURSIVE RStrip(_)
RStrip(s) ==
    IF s # <<>> /\ s[Len(s)] \in Whitespace
    THEN RStrip(SubSeq(s, 1, Len(s) - 1))
    ELSE s

Strip(s) == RStrip(LStrip(s))

\* ------------------------------------------------------------- amounts

\* the canonical form of m / 10^e
RECURSIVE Canon(_)
Canon(a) ==
    IF a.e > 0 /\ a.m % 10 = 0
    THEN Canon([m |-> a.m \div 10, e |-> a.e - 1])
    ELSE a

Amount(m, e) == Canon([m |-> m, e |-> e])

\* a <= b, a < b on amounts
AmountLe(a, b) == a.m * Pow10(b.e) <= b.m * Pow10(a.e)
AmountLt(a, b) == a.m * Pow10(b.e) < b.m * Pow10(a.e)

RECURSIVE DigitsVal(_)
DigitsVal(ds) ==
    IF ds = <<>> THEN 0
    ELSE 10 * DigitsVal(SubSeq(ds, 1, Len(ds) - 1)) + DigitVal(ds[Len(ds)])

\* Python values: None, a number, a string
None == [t |-> "none"]
Num(a) == [t |-> "num", n |-> a]
Str(s) == [t |-> "str", s |-> s]

\* bool(v) for those values
Truthy(v) ==
    CASE v.t = "none" -> FALSE
      [] v.t = "num" -> v.n.m # 0
      [] v.t = "str" -> v.s # <<>>

\* Python's `a or b`
PyOr(a, b) == IF Truthy(a) THEN a ELSE b

\* float(txt) for text made of digits, "." and white space: None stands for
\* the ValueError
PointsOf(t) == {i \in 1..Len(t) : t[i] = "."}

ParseFloat(txt) ==
    LET t == Strip(txt)
        pts == PointsOf(t)
    IN  IF \/ t = <<>>
           \/ \E i \in 1..Len(t) : t[i] \notin Digits \cup {"."}
           \/ Cardinality(pts) > 1
           \/ \A i \in 1..Len(t) : t[i] = "."
        THEN None
        ELSE LET p == IF pts = {} THEN Len(t) + 1 ELSE CHOOSE i \in pts : TRUE
                 ip == SubSeq(t, 1, p - 1)
                 fp == SubSeq(t, p + 1, Len(t))
             IN  Num(Amount(DigitsVal(ip \o fp), Len(fp)))

\* the end of the run of digits that starts at s[i]
RECURSIVE DigitRunEnd(_, _)
DigitRunEnd(s, i) ==
    IF i + 1 <= Len(s) /\ s[i + 1] \in Digits THEN DigitRunEnd(s, i + 1) ELSE i

\* the leftmost match of [0-9]+(?:\.[0-9]{1,2})? in s, <<>> when there is none
FirstPriceToken(s) ==
    LET ds == {i \in 1..Len(s) : s[i] \in Digits}
    IN  IF ds = {} THEN <<>>
        ELSE LET i == CHOOSE k \in ds : \A l \in ds : k <= l
                 j == DigitRunEnd(s, i)
                 frac == IF j + 2 <= Len(s) /\ s[j + 1] = "." /\ s[j + 2] \in Digits
                         THEN IF j + 3 <= Len(s) /\ s[j + 3] \in Digits
                              THEN 3 ELSE 2
                         ELSE 0
             IN  SubSeq(s, i, j + frac)

\* str(x) of a float
RECURSIVE NatStr(_)
NatStr(n) ==
    IF n < 10 THEN <<DigitChar(n)>> ELSE NatStr(n \div 10) \o <<DigitChar(n % 10)>>

RECURSIVE PadFrac(_, _)
PadFrac(ds, e) == IF Len(ds) < e THEN PadFrac(<<"0">> \o ds, e) ELSE ds

FloatStr(a) ==
    LET abs == IF a.m < 0 THEN 0 - a.m ELSE a.m
        ip == abs \div Pow10(a.e)
        fp == abs % Pow10(a.e)
    IN  (IF a.m < 0 THEN <<"-">> ELSE <<>>)
        \o NatStr(ip) \o <<".">>
        \o (IF a.e = 0 THEN <<"0">> ELSE PadFrac(NatStr(fp), a.e))

\* ------------------------------------------------- price normalisation

\* the textual structured price: the replace chain, strip, and
\* float(re.findall(...)[0]); None stands for the caught IndexError
NormStructured(price) ==
    LET norm == Strip(Replace(Replace(Replace(Replace(Replace(Replace(price,
                    <<NNBSP>>, <<>>), <<NBSP>>, <<>>), <<"€">>, <<>>),
                    <<"E", "U", "R">>, <<>>), <<".">>, <<>>), <<",">>, <<".">>))
        tok == FirstPriceToken(norm)
    IN  IF tok = <<>> THEN None ELSE ParseFloat(tok)

\* a structured response's content: kind "dict" with the three price fields
\* (bw: buybox_winner.price, pr: price, bb: buybox.price, hasbb: the key
\* "buybox" is present), or kind "other" for content that is no dict
Content(bw, pr, hasbb, bb) ==
    [kind |-> "dict", bw |-> bw, pr |-> pr, hasbb |-> hasbb, bb |-> bb]

NoDict == [kind |-> "other", bw |-> None, pr |-> None, hasbb |-> FALSE, bb |-> None]

\* the lookup without its buybox branch
SelectedPrice_without_buybox(content) == PyOr(content.bw, content.pr)

\* the value the field lookups select, before normalisation
SelectedPrice(content) ==
    LET p1 == PyOr(content.bw, content.pr)
    IN  IF p1 = None /\ content.hasbb THEN content.bb ELSE p1

\* the price the structured tier extracts: a number, or None
StructuredPrice(content) ==
    IF content.kind # "dict" THEN None
    ELSE LET sel == SelectedPrice(content)
         IN  IF sel.t = "str" THEN NormStructured(sel.s) ELSE sel

\* --------------------------------------------------------- HTML parsing

\* the selectors pick_price_text probes, in its order
Selectors ==
    << ".a-price .a-offscreen", "#apex_desktop .a-offscreen",
       "#corePrice_feature_div .a-offscreen", "#priceblock_ourprice",
       "#priceblock_dealprice", "#priceblock_saleprice", "span.a-offscreen" >>

LegacySelectors ==
    {"#priceblock_ourprice", "#priceblock_dealprice", "#priceblock_saleprice"}

\* A page: ld, the application/ld+json scripts in document order; nodes, the
\* text of the first element each selector matches (<<>> when none matches);
\* body, the rest of the markup.
\* n.get_text(strip=True) of the element a selector matches
NodeText(html, sel) == Strip(html.nodes[sel])

\* the first selector, in order, whose element has text; None when none has
pick_price_text(html) ==
    LET hits == {i \in 1..Len(Selectors) : NodeText(html, Selectors[i]) # <<>>}
    IN  IF hits = {} THEN None
        ELSE Str(NodeText(html, Selectors[CHOOSE i \in hits : \A j \in hits : i <= j]))

\* str(val) of an offer's price
PyStr(val) == IF val.t = "num" THEN FloatStr(val.n) ELSE val.s

\* one JSON-LD object: its offer price, parsed; None when it yields none
LdObjectPrice(d) ==
    LET val == IF d.offers = "dict" THEN d.price ELSE None
    IN  IF ~Truthy(val) THEN None
        ELSE LET s == Replace(Replace(Replace(PyStr(val),
                          <<NNBSP>>, <<>>), <<NBSP>>, <<>>), <<",">>, <<".">>)
                 tok == FirstPriceToken(s)
             IN  IF tok = <<>> THEN None ELSE ParseFloat(tok)

\* a list-encoded script: the first object with a price; an element that is
\* no object raises inside the try and ends the script
RECURSIVE LdListPrice(_)
LdListPrice(ds) ==
    IF ds = <<>> THEN None
    ELSE IF Head(ds).offers = "nonobject" THEN None
    ELSE IF LdObjectPrice(Head(ds)) # None THEN LdObjectPrice(Head(ds))
    ELSE LdListPrice(Tail(ds))

\* one script: shape "dict", "list", or "invalid" (json.loads raises)
LdScriptPrice(script) ==
    CASE script.shape = "list" -> LdListPrice(script.items)
      [] script.shape = "dict" ->
            IF Head(script.items).offers = "nonobject" THEN None
            ELSE LdObjectPrice(Head(script.items))
      [] OTHER -> None

\* strategy A: the first script that yields a price
RECURSIVE JsonLdPrice(_)
JsonLdPrice(scripts) ==
    IF scripts = <<>> THEN None
    ELSE IF LdScriptPrice(Head(scripts)) # None THEN LdScriptPrice(Head(scripts))
    ELSE JsonLdPrice(Tail(scripts))

\* strategy B: the selector text, normalised
NormSelector(price_txt) ==
    LET norm == Replace(Replace(Replace(Replace(Replace(Replace(price_txt,
                    <<NNBSP>>, <<>>), <<NBSP>>, <<>>), <<"€">>, <<>>),
                    <<"E", "U", "R">>, <<>>), <<".">>, <<>>), <<",">>, <<".">>)
        tok == FirstPriceToken(norm)
    IN  IF tok = <<>> THEN None ELSE ParseFloat(tok)

SelectorPrice(html) ==
    LET price_txt == pick_price_text(html)
    IN  IF price_txt = None THEN None ELSE NormSelector(price_txt.s)

\* the markup the raw scan reads: the element texts, then the body
RECURSIVE NodesMarkup(_, _)
NodesMarkup(html, i) ==
    IF i > Len(Selectors) THEN <<>>
    ELSE <<"<">> \o html.nodes[Selectors[i]] \o <<">">> \o NodesMarkup(html, i + 1)

RawHtml(html) == NodesMarkup(html, 1) \o html.body

\* strategy C: the leftmost match of ([0-9][0-9\.,\s]+)\s?(€|EUR) and
\* float() of its first group; None when nothing matches or float() raises
ScanClass == Digits \cup {".", ","} \cup Whitespace

RECURSIVE ClassRunEnd(_, _)
ClassRunEnd(s, i) ==
    IF i + 1 <= Len(s) /\ s[i + 1] \in ScanClass THEN ClassRunEnd(s, i + 1) ELSE i

CurrencyAt(s, i) ==
    \/ i <= Len(s) /\ s[i] = "€"
    \/ i + 2 <= Len(s) /\ SubSeq(s, i, i + 2) = <<"E", "U", "R">>

ScanMatches(s) ==
    {i \in 1..Len(s) : /\ s[i] \in Digits
                       /\ ClassRunEnd(s, i) > i
                       /\ CurrencyAt(s, ClassRunEnd(s, i) + 1)}

RawScan(markup) ==
    LET ms == ScanMatches(markup)
    IN  IF ms = {} THEN None
        ELSE LET i == CHOOSE k \in ms : \A l \in ms : k <= l
                 g == SubSeq(markup, i, ClassRunEnd(markup, i))
                 num == Replace(Replace(Replace(Replace(Replace(g,
                            <<NNBSP>>, <<>>), <<NBSP>>, <<>>), <<" ">>, <<>>),
                            <<".">>, <<>>), <<",">>, <<".">>)
             IN  ParseFloat(num)

\* the module-level `price` after strategies A, B and C
HtmlPrice(html) ==
    LET a == JsonLdPrice(html.ld)
        b == IF a = None THEN SelectorPrice(html) ELSE a
    IN  IF b = None THEN RawScan(RawHtml(html)) ELSE b

\* -------------------------------------------------------- configuration

COUNTRY_TO_DOMAIN ==
    [c \in {"FR", "DE", "BE"} |->
        CASE c = "FR" -> "amazon.fr" [] c = "DE" -> "amazon.de"
          [] c = "BE" -> "amazon.com.be"]

COUNTRY_TO_GEO ==
    [c \in {"FR", "DE", "BE"} |->
        CASE c = "FR" -> "France" [] c = "DE" -> "Germany" [] c = "BE" -> "Belgium"]

\* the affiliate tags, with AFFILIATE_TAG_* unset
AFF_TAGS == [c \in {"FR", "DE", "BE"} |-> ""]

\* the default of the ALLOWED_COUNTRIES setting
ALLOWED_COUNTRIES == <<"FR", "DE", "BE">>

\* ------------------------------------------------------------- outcomes

\* how a call ends: it returns v, or raises exc (status is the HTTPException's)
Return(v) == [k |-> "return", exc |-> "", status |-> 0, v |-> v]
Raise(exc, status) == [k |-> "raise", exc |-> exc, status |-> status, v |-> None]

Quote(price) == [t |-> "quote", price |-> price, currency |-> "EUR"]

IsQuote(out) == out.k = "return" /\ out.v.t = "quote"

\* an upstream answer: a response with a status and a body, or requests.post
\* raising (a timeout, a connection error)
Response(status, body) == [raised |-> FALSE, status |-> status, body |-> body]
NoResponse == [raised |-> TRUE, status |-> 0, body |-> <<>>]

\* the two requests the resolver can send
StructuredRequest(asin, country) ==
    [source |-> "amazon_product", target |-> asin,
     domain |-> COUNTRY_TO_DOMAIN[country], geo |-> COUNTRY_TO_GEO[country]]

HtmlRequest(asin, country) ==
    [source |-> "amazon", target |-> <<COUNTRY_TO_DOMAIN[country], "/dp/", asin>>,
     domain |-> COUNTRY_TO_DOMAIN[country], geo |-> COUNTRY_TO_GEO[country]]

\* ---------------------------------------------------------- the resolver

\* `status_code > 400`: a 400 passes for a success
IsError_above_400(status) == status > 400

\* resp.status_code >= 400
IsError(status) == status >= 400

\* oxylabs_amazon_price(asin, country) with OXY_USER/OXY_PASS set or not
\* (creds) against an upstream that answers the structured query with up.r1
\* and the HTML fetch with up.r2: how the call ends (out) and the requests
\* it sent (reqs).  The def ends with the assignment to html (the parsing
\* block that follows it stands at module level): after a successful HTML
\* fetch the call falls off the end of the def and returns None.
oxylabs_amazon_price(creds, asin, country, up) ==
    IF ~creds
    THEN [out |-> Raise("HTTPException", 500), reqs |-> <<>>]
    ELSE IF country \notin DOMAIN COUNTRY_TO_DOMAIN \/ country \notin DOMAIN COUNTRY_TO_GEO
    THEN [out |-> Raise("KeyError", 0), reqs |-> <<>>]
    ELSE LET q1 == StructuredRequest(asin, country)
             q2 == HtmlRequest(asin, country)
         IN  IF up.r1.raised
             THEN [out |-> Raise("RequestException", 0), reqs |-> <<q1>>]
             ELSE IF IsError(up.r1.status)
             THEN [out |-> Raise("HTTPException", 502), reqs |-> <<q1>>]
             ELSE LET price == StructuredPrice(up.r1.body)
                  IN  IF price # None
                      THEN [out |-> Return(Quote(price.n)), reqs |-> <<q1>>]
                      ELSE IF up.r2.raised
                      THEN [out |-> Raise("RequestException", 0), reqs |-> <<q1, q2>>]
                      ELSE IF IsError(up.r2.status)
                      THEN [out |-> Raise("HTTPException", 502), reqs |-> <<q1, q2>>]
                      ELSE [out |-> Return(None), reqs |-> <<q1, q2>>]

\* ------------------------------------------------------------- helpers

AsinChars ==
    Digits \cup {"A", "B", "C", "D", "E", "F", "G", "H", "I", "J", "K", "L", "M",
                 "N", "O", "P", "Q", "R", "S", "T", "U", "V", "W", "X", "Y", "Z"}

\* ASIN_RE matches at position i through its first alternative with prefix pre
AsinAfter(t, i, pre) ==
    /\ i + Len(pre) + 9 <= Len(t)
    /\ SubSeq(t, i, i + Len(pre) - 1) = pre
    /\ \A j \in (i + Len(pre))..(i + Len(pre) + 9) : t[j] \in AsinChars

\* extract_asin: the identifier, None when ASIN_RE finds none
extract_asin(user_input) ==
    LET t == Strip(user_input)
        dp == <<"/", "d", "p", "/">>
        gp == <<"/", "g", "p", "/", "p", "r", "o", "d", "u", "c", "t", "/">>
        hits == {i \in 1..Len(t) : AsinAfter(t, i, dp) \/ AsinAfter(t, i, gp)}
    IN  IF hits # {}
        THEN LET i == CHOOSE k \in hits : \A l \in hits : k <= l
                 n == IF AsinAfter(t, i, dp) THEN Len(dp) ELSE Len(gp)
             IN  Str(SubSeq(t, i + n, i + n + 9))
        ELSE IF Len(t) = 10 /\ \A j \in 1..10 : t[j] \in AsinChars
        THEN Str(t)
        ELSE None

\* affiliate_link(asin, country)
affiliate_link(asin, country) ==
    [domain |-> COUNTRY_TO_DOMAIN[country], asin |-> asin,
     tail |-> IF AFF_TAGS[country] # "" THEN <<"?tag=", AFF_TAGS[country]>> ELSE <<>>]

\* list.sort(key=lambda x: x.price): ascending and stable
RECURSIVE InsertByPrice(_, _)
InsertByPrice(sorted, it) ==
    IF sorted = <<>> THEN <<it>>
    ELSE IF AmountLt(it.price, Head(sorted).price)
         THEN <<it>> \o sorted
         ELSE <<Head(sorted)>> \o InsertByPrice(Tail(sorted), it)

RECURSIVE SortByPrice(_)
SortByPrice(items) ==
    IF items = <<>> THEN <<>>
    ELSE InsertByPrice(SortByPrice(SubSeq(items, 1, Len(items) - 1)), items[Len(items)])

\* ---------------------------------------------------------------- state

VARIABLES
    creds,      \* OXY_USER and OXY_PASS are both set
    smtp,       \* SMTP_HOST, SMTP_USER and SMTP_PASS are all set
    prices,     \* the rows of table prices, in insertion order
    alerts,     \* the rows of table alerts, in insertion order
    resp,       \* the last request: its endpoint and how it ended
    calls,      \* the resolver calls of the last request, in order
    everSent,   \* history variable: the alert rows mailed before the last request
    input,      \* the argument of the function under check (function-level runs)
    output      \* its result

vars == <<creds, smtp, prices, alerts, resp, calls, everSent, input, output>>

\* ---------------------------------------------------------------- bounds

\* rows of table alerts
MaxAlerts == 2
\* rows of table prices
MaxObs == 3

\* ---------------------------------------------------------------- inputs

ValidAsin == <<"B", "0", "C", "X", "X", "X", "X", "X", "X", "X">>
OtherAsin == <<"B", "0", "0", "0", "0", "0", "0", "0", "0", "1">>

UserInputs ==
    { ValidAsin,
      <<"f", "r", "/", "d", "p", "/">> \o ValidAsin \o <<"?", "t", "=", "1">>,
      <<"/", "g", "p", "/", "p", "r", "o", "d", "u", "c", "t", "/">> \o ValidAsin,
      <<"/", "d", "p", "/", "b", "0", "c", "x", "x", "x", "x", "x", "x", "x">>,
      SubSeq(ValidAsin, 1, 9) }

EmptyNodes == [sel \in {Selectors[i] : i \in 1..Len(Selectors)} |-> <<>>]

\* a page whose only price is in a legacy price-block element: 27,00 EUR
PageLegacy ==
    [ld |-> <<>>,
     nodes |-> [EmptyNodes EXCEPT !["#priceblock_dealprice"] =
                    <<" ", "2", "7", ",", "0", "0", NBSP, "€", " ">>],
     body |-> <<"<", "p", ">", "N", "/", "A">>]

\* a page with no price in it
PageNoPrice == [ld |-> <<>>, nodes |-> EmptyNodes, body |-> <<"<", "p", ">", "N", "/", "A">>]

A1999 == Amount(1999, 2)
A1550 == Amount(1550, 2)
A2001 == Amount(2001, 2)
A2000 == Amount(2000, 2)

TextEur1550 == <<"E", "U", "R", " ", "1", "5", ",", "5", "0">>
TextNA == <<"N", "/", "A">>

NoFields == Content(None, None, FALSE, None)

\* what the upstream answers to one resolution, in the request-level runs
Upstreams ==
    { [r1 |-> Response(500, NoFields), r2 |-> NoResponse],
      [r1 |-> NoResponse, r2 |-> NoResponse],
      [r1 |-> Response(200, Content(Num(A1999), None, FALSE, None)), r2 |-> NoResponse],
      [r1 |-> Response(200, Content(None, Str(TextEur1550), FALSE, None)), r2 |-> NoResponse],
      [r1 |-> Response(200, Content(None, None, TRUE, Num(A2001))), r2 |-> NoResponse],
      [r1 |-> Response(200, Content(Str(TextNA), Num(A1550), FALSE, None)),
       r2 |-> Response(200, PageLegacy)],
      [r1 |-> Response(200, NoFields), r2 |-> Response(503, PageNoPrice)],
      [r1 |-> Response(200, NoFields), r2 |-> Response(200, PageLegacy)],
      [r1 |-> Response(200, NoDict), r2 |-> Response(200, PageNoPrice)] }

\* the answer tried where the endpoints are taken together
FewUpstreams ==
    { [r1 |-> Response(200, Content(Num(A1999), None, FALSE, None)), r2 |-> NoResponse] }

\* the answers tried for an alert's resolution
AlertUpstreams ==
    { [r1 |-> Response(500, NoFields), r2 |-> NoResponse],
      [r1 |-> Response(200, Content(Num(A1999), None, FALSE, None)), r2 |-> NoResponse],
      [r1 |-> Response(200, Content(None, Num(A2000), FALSE, None)), r2 |-> NoResponse],
      [r1 |-> Response(200, Content(None, None, TRUE, Num(A2001))), r2 |-> NoResponse],
      [r1 |-> Response(200, NoFields), r2 |-> Response(200, PageLegacy)] }

\* the structured answers tried for debug
DebugResponses ==
    { Response(200, Content(Num(A1999), None, FALSE, None)), Response(500, NoFields),
      Response(200, NoDict), NoResponse }

\* what the SMTP server does with one message
MailOutcomes == {"accepted", "refused"}

\* what happens to one alert in a run: the upstream's answers and, where the
\* resolver's first answer carries the lowest price, either answer of the
\* SMTP server
AlertInputs ==
    {in \in [up : AlertUpstreams, mail : MailOutcomes] :
        in.mail = "refused" => in.up.r1.body.bw # None}

\* the alert registrations tried
AlertRequests ==
    { [asin |-> ValidAsin, country |-> "FR", target_price |-> A2000, email |-> "a@x"],
      [asin |-> ValidAsin, country |-> "ANY", target_price |-> A2000, email |-> "c@x"] }

\* ------------------------------------------------------------ endpoints

\* the history variable once the next request starts: what the last one mailed
\* joins what was mailed before it
Mailed == everSent \cup {i \in 1..Len(calls) : calls[i].send = "delivered"}

Ended(op, out) == [op |-> op, out |-> out]

Call(country, r, send) ==
    [country |-> country, out |-> r.out, reqs |-> r.reqs, send |-> send]

\* send_email(to, subject, html) with SMTP configured or not (sm) and the
\* server's answer
send_email(sm, mail) ==
    IF ~sm THEN Raise("HTTPException", 500)
    ELSE IF mail = "refused" THEN Raise("SMTPException", 0)
    ELSE Return(None)

\* compare's clause `except HTTPException`
CaughtInCompare(exc) == exc.exc = "HTTPException"

\* one turn of compare's loop, for market i whose resolver call ended as r;
\* acc holds the items and the rows inserted so far, the resolver calls, and
\* the exception that left the loop, if one did
RECURSIVE CompareLoop(_, _, _, _, _)
CompareTurn(cr, asin, ups, i, acc, r) ==
    LET country == ALLOWED_COUNTRIES[i]
        seen == Append(acc.calls, Call(country, r, "notcalled"))
    IN  IF r.out.k = "raise" /\ CaughtInCompare(r.out)
        THEN CompareLoop(cr, asin, ups, i + 1, [acc EXCEPT !.calls = seen])
        ELSE IF r.out.k = "raise"
        THEN [acc EXCEPT !.calls = seen, !.exc = r.out]
        \* p["price"] on the None a call returned
        ELSE IF r.out.v = None
        THEN IF CaughtInCompare(Raise("TypeError", 0))
             THEN CompareLoop(cr, asin, ups, i + 1, [acc EXCEPT !.calls = seen])
             ELSE [acc EXCEPT !.calls = seen, !.exc = Raise("TypeError", 0)]
        ELSE CompareLoop(cr, asin, ups, i + 1,
               [acc EXCEPT
                   !.calls = seen,
                   !.items = Append(@, [country |-> country,
                                        price |-> r.out.v.price,
                                        currency |-> r.out.v.currency,
                                        affiliate_link |-> affiliate_link(asin, country)]),
                   !.rows = Append(@, [asin |-> asin, country |-> country,
                                       price |-> r.out.v.price,
                                       currency |-> r.out.v.currency])])

\* the loop of compare over ALLOWED_COUNTRIES from market i on
CompareLoop(cr, asin, ups, i, acc) ==
    IF i > Len(ALLOWED_COUNTRIES) THEN acc
    ELSE CompareTurn(cr, asin, ups, i, acc,
                     oxylabs_amazon_price(cr, asin, ALLOWED_COUNTRIES[i], ups[i]))

\* how compare ends once its loop has
CompareOutcome(asin, acc) ==
    IF acc.exc # None THEN acc.exc
    ELSE IF acc.items = <<>> THEN Raise("HTTPException", 404)
    ELSE Return([asin |-> asin, items |-> SortByPrice(acc.items)])

\* POST /compare
compare(user_input, ups) ==
    LET asin == extract_asin(user_input)
    IN  IF asin = None
        THEN /\ resp' = Ended("compare", Raise("HTTPException", 400))
             /\ calls' = <<>>
             /\ everSent' = Mailed
             /\ UNCHANGED <<creds, smtp, prices, alerts, input, output>>
        ELSE LET acc == CompareLoop(creds, asin.s, ups, 1,
                            [items |-> <<>>, rows |-> <<>>, calls |-> <<>>, exc |-> None])
             IN  /\ Len(prices) + Len(ALLOWED_COUNTRIES) <= MaxObs
                 /\ prices' = prices \o acc.rows
                 /\ calls' = acc.calls
                 /\ resp' = Ended("compare", CompareOutcome(asin.s, acc))
                 /\ everSent' = Mailed
                 /\ UNCHANGED <<creds, smtp, alerts, input, output>>

\* GET /history/{asin}: the rows of the last 30 days are the rows from some
\* row `since` on (rows are inserted in time order)
history(asin, since) ==
    /\ since \in 1..(Len(prices) + 1)
    /\ resp' = Ended("history",
                 Return([asin |-> asin,
                         rows |-> SelectSeq(SubSeq(prices, since, Len(prices)),
                                            LAMBDA r : r.asin = asin)]))
    /\ calls' = <<>>
    /\ everSent' = Mailed
    /\ UNCHANGED <<creds, smtp, prices, alerts, input, output>>

\* INSERT OR REPLACE on (asin, country): a registration for a pair already
\* watched takes the place of the stored one
InsertAlert_or_replace(als, req) ==
    IF \E i \in 1..Len(als) : als[i].asin = req.asin /\ als[i].country = req.country
    THEN [i \in 1..Len(als) |->
            IF als[i].asin = req.asin /\ als[i].country = req.country THEN req ELSE als[i]]
    ELSE Append(als, req)

\* INSERT INTO alerts
InsertAlert(als, req) == Append(als, req)

\* POST /alerts
create_alert(req) ==
    /\ Len(alerts) < MaxAlerts
    /\ alerts' = InsertAlert(alerts, req)
    /\ resp' = Ended("create_alert", Return(Str(<<"o", "k">>)))
    /\ calls' = <<>>
    /\ everSent' = Mailed
    /\ UNCHANGED <<creds, smtp, prices, input, output>>

\* `p["price"] < a["target_price"]`
Triggers_strictly_below(price, target_price) == AmountLt(price, target_price)

\* p["price"] <= a["target_price"]
Triggers(price, target_price) == AmountLe(price, target_price)

\* `except HTTPException`, as in compare
CaughtInRun_http_only(exc) == exc.exc = "HTTPException"

\* no try around the body of the loop
CaughtInRun_nothing(exc) == FALSE

\* run_alerts' clause `except Exception`
CaughtInRun(exc) == exc.k = "raise"

\* the try block of run_alerts for alert a once the resolver call has ended
\* as r, send_email ending as mailed if it is called: the call, what became
\* of send_email, and the exception the block raised (None when it raised none)
AlertTry(r, mailed, a) ==
    IF r.out.k = "raise"
    THEN [r |-> r, send |-> "notcalled", raised |-> r.out]
    ELSE IF r.out.v = None
    THEN [r |-> r, send |-> "notcalled", raised |-> Raise("TypeError", 0)]
    ELSE IF ~Triggers(r.out.v.price, a.target_price)
    THEN [r |-> r, send |-> "notcalled", raised |-> None]
    ELSE IF mailed.k = "raise"
    THEN [r |-> r, send |-> "failed", raised |-> mailed]
    ELSE [r |-> r, send |-> "delivered", raised |-> None]

\* the try block of run_alerts for alert a
AlertStep(cr, sm, a, in) ==
    AlertTry(oxylabs_amazon_price(cr, a.asin, a.country, in.up),
             send_email(sm, in.mail), a)

\* one turn of run_alerts' loop, for row i whose try block ended as st; acc
\* holds the sent list, the resolver calls, and the exception that left the
\* loop, if one did
RECURSIVE RunLoop(_, _, _, _, _, _)
RunTurn(cr, sm, als, ins, i, acc, st) ==
    LET a == als[i]
        seen == Append(acc.calls, Call(a.country, st.r, st.send))
    IN  IF st.raised # None /\ ~CaughtInRun(st.raised)
        THEN [acc EXCEPT !.calls = seen, !.exc = st.raised]
        ELSE IF st.send = "delivered"
        THEN RunLoop(cr, sm, als, ins, i + 1,
               [acc EXCEPT
                   !.calls = seen,
                   !.sent = Append(@, [to |-> a.email, asin |-> a.asin,
                                       country |-> a.country,
                                       price |-> st.r.out.v.price])])
        ELSE RunLoop(cr, sm, als, ins, i + 1, [acc EXCEPT !.calls = seen])

\* the loop of run_alerts over the rows als from row i on
RunLoop(cr, sm, als, ins, i, acc) ==
    IF i > Len(als) THEN acc
    ELSE RunTurn(cr, sm, als, ins, i, acc, AlertStep(cr, sm, als[i], ins[i]))

\* POST /alerts/run
run_alerts(ins) ==
    LET acc == RunLoop(creds, smtp, alerts, ins, 1,
                       [sent |-> <<>>, calls |-> <<>>, exc |-> None])
    IN  /\ resp' = Ended("run_alerts",
                     IF acc.exc # None THEN acc.exc ELSE Return([sent |-> acc.sent]))
        /\ calls' = acc.calls
        /\ everSent' = Mailed
        /\ UNCHANGED <<creds, smtp, prices, alerts, input, output>>

\* POST /alerts/test
test_email(mail) ==
    /\ resp' = Ended("test_email",
                 IF send_email(smtp, mail).k = "raise" THEN send_email(smtp, mail)
                 ELSE Return(Str(<<"o", "k">>)))
    /\ calls' = <<>>
    /\ everSent' = Mailed
    /\ UNCHANGED <<creds, smtp, prices, alerts, input, output>>

\* GET /
root ==
    /\ resp' = Ended("root", Return(Str(<<"o", "k">>)))
    /\ calls' = <<>>
    /\ everSent' = Mailed
    /\ UNCHANGED <<creds, smtp, prices, alerts, input, output>>

\* GET /debug: one structured query, sent without the credentials check and
\* read without a look at its status; of the content only the price fields
\* are modelled
debug(asin, country, r1) ==
    /\ resp' = Ended("debug",
                 IF country \notin DOMAIN COUNTRY_TO_DOMAIN THEN Raise("KeyError", 0)
                 ELSE IF r1.raised THEN Raise("RequestException", 0)
                 ELSE IF r1.body.kind # "dict" THEN Raise("AttributeError", 0)
                 ELSE Return([country |-> country,
                              parsed_keys |-> [price |-> r1.body.pr,
                                               buybox |-> r1.body.bb,
                                               buybox_winner |-> r1.body.bw],
                              has_content |-> r1.body # NoFields]))
    /\ calls' = <<>>
    /\ everSent' = Mailed
    /\ UNCHANGED <<creds, smtp, prices, alerts, input, output>>

\* ------------------------------------------------------- specification

Init ==
    /\ creds \in BOOLEAN
    /\ smtp \in BOOLEAN
    /\ prices = <<>>
    /\ alerts = <<>>
    /\ resp = Ended("start", Return(None))
    /\ calls = <<>>
    /\ everSent = {}
    /\ input = None
    /\ output = None

\* the upstream answers tried for each of compare's markets
CompareWith(U) ==
    \E u \in UserInputs :
        \E ups \in IF extract_asin(u) = None
                   THEN {[i \in 1..Len(ALLOWED_COUNTRIES) |-> CHOOSE x \in U : TRUE]}
                   ELSE [1..Len(ALLOWED_COUNTRIES) -> U] :
            compare(u, ups)

Compare == CompareWith(Upstreams)

CompareFew == CompareWith(FewUpstreams)

History == \E a \in {ValidAsin, OtherAsin}, k \in 1..(Len(prices) + 1) : history(a, k)

CreateAlert == \E req \in AlertRequests : create_alert(req)

RunAlerts ==
    \E ins \in [1..Len(alerts) -> AlertInputs] : run_alerts(ins)

TestEmail == \E m \in MailOutcomes : test_email(m)

Root == root

Debug ==
    \E c \in {"FR", "ANY"}, r1 \in DebugResponses : debug(ValidAsin, c, r1)

\* every endpoint
Next ==
    \/ CompareFew
    \/ History
    \/ CreateAlert
    \/ RunAlerts
    \/ TestEmail
    \/ Root
    \/ Debug

Spec == Init /\ [][Next]_vars

\* the comparison endpoints, over every upstream answer of Upstreams
NextCompare ==
    \/ Compare
    \/ History
    \/ Root
    \/ Debug

SpecCompare == Init /\ [][NextCompare]_vars

\* ------------------------------------------- the resolver, call by call

A19999 == Amount(19999, 3)

\* what a price field of the structured content may hold
FieldValues ==
    {None, Num(Amount(0, 0)), Num(A1999), Num(A19999), Str(TextEur1550), Str(TextNA), Str(<<>>)}

Contents ==
    {Content(bw, pr, FALSE, None) : bw \in FieldValues, pr \in FieldValues}
    \cup {Content(bw, pr, TRUE, bb) : bw \in {None, Num(Amount(0, 0)), Str(<<>>)},
                                      pr \in {None, Num(Amount(0, 0)), Str(<<>>)},
                                      bb \in FieldValues}
    \cup {NoDict}

\* a page whose price is in the modern price element
PageModern ==
    [ld |-> <<>>,
     nodes |-> [EmptyNodes EXCEPT ![".a-price .a-offscreen"] = <<"1", "9", ",", "9", "9", "€">>],
     body |-> <<>>]

StructuredAnswers ==
    {Response(200, c) : c \in Contents}
    \cup {Response(st, NoFields) : st \in {400, 503}}
    \cup {NoResponse}

HtmlAnswers ==
    {Response(200, page) : page \in {PageLegacy, PageModern, PageNoPrice}}
    \cup {Response(503, PageNoPrice), NoResponse}

ResolveInputs ==
    [country : {"FR", "BE", "ANY"}, up : [r1 : StructuredAnswers, r2 : HtmlAnswers]]

InitResolve ==
    /\ creds \in BOOLEAN
    /\ smtp = TRUE
    /\ prices = <<>>
    /\ alerts = <<>>
    /\ resp = Ended("start", Return(None))
    /\ calls = <<>>
    /\ everSent = {}
    /\ input \in ResolveInputs
    /\ output = None

\* one call of oxylabs_amazon_price
Resolve ==
    /\ output = None
    /\ output' = oxylabs_amazon_price(creds, ValidAsin, input.country, input.up)
    /\ UNCHANGED <<creds, smtp, prices, alerts, resp, calls, everSent, input>>

SpecResolve == InitResolve /\ [][Resolve]_vars

\* ------------------------------------ the normalisation, input by input

\* price texts: a prefix, an integer part, a fraction, a suffix
NormTexts ==
    { pre \o ip \o fr \o suf :
        pre \in {<<>>, <<"E", "U", "R", " ">>, <<"-">>},
        ip \in {<<"0">>, <<"1", "9">>, <<"1", ".", "0", "4", "9">>},
        fr \in {<<>>, <<",", "5">>, <<",", "9", "9">>, <<",", "9", "9", "9">>, <<".", "5", "0">>},
        suf \in {<<>>, <<" ", "€">>, <<NBSP, "€">>, <<NNBSP, "E", "U", "R">>} }
    \cup {TextNA, <<>>}

NormNumbers ==
    {Amount(0, 0), A1999, A1550, A2000, A19999, Amount(-500, 2), Amount(5, 2)}

NormValues == {Num(n) : n \in NormNumbers} \cup {Str(t) : t \in NormTexts}

NormInputs ==
    [shape : {"structured", "jsonld-dict", "jsonld-list"}, v : NormValues]
    \cup [shape : {"selector", "markup"}, v : {Str(t) : t \in NormTexts}]

InitNorm ==
    /\ creds = TRUE
    /\ smtp = TRUE
    /\ prices = <<>>
    /\ alerts = <<>>
    /\ resp = Ended("start", Return(None))
    /\ calls = <<>>
    /\ everSent = {}
    /\ input \in NormInputs
    /\ output = None

Normalised(path, price) == [path |-> path, price |-> price]

\* a structured price field, numeric or textual
ApplyStructured ==
    /\ output = None /\ input.shape = "structured"
    /\ output' = Normalised(IF input.v.t = "num" THEN "number" ELSE "text",
                            StructuredPrice(Content(None, input.v, FALSE, None)))
    /\ UNCHANGED <<creds, smtp, prices, alerts, resp, calls, everSent, input>>

\* a JSON-LD offer price, in an object or in a list of objects
ApplyJsonLd ==
    /\ output = None /\ input.shape \in {"jsonld-dict", "jsonld-list"}
    /\ output' = Normalised("jsonld",
                    JsonLdPrice(<<[shape |-> "invalid", items |-> <<>>],
                                  IF input.shape = "jsonld-dict"
                                  THEN [shape |-> "dict",
                                        items |-> <<[offers |-> "dict", price |-> input.v]>>]
                                  ELSE [shape |-> "list",
                                        items |-> <<[offers |-> "none", price |-> None],
                                                    [offers |-> "dict", price |-> input.v]>>]>>))
    /\ UNCHANGED <<creds, smtp, prices, alerts, resp, calls, everSent, input>>

\* the text of a legacy price-block element
ApplySelector ==
    /\ output = None /\ input.shape = "selector"
    /\ output' = Normalised("selector",
                    SelectorPrice([ld |-> <<>>,
                                   nodes |-> [EmptyNodes EXCEPT !["#priceblock_ourprice"] = input.v.s],
                                   body |-> <<>>]))
    /\ UNCHANGED <<creds, smtp, prices, alerts, resp, calls, everSent, input>>

\* text in the markup outside every probed element
ApplyRawScan ==
    /\ output = None /\ input.shape = "markup"
    /\ output' = Normalised("scan",
                    RawScan(RawHtml([ld |-> <<>>, nodes |-> EmptyNodes,
                                     body |-> <<"<", "b", ">">> \o input.v.s \o <<"<">>])))
    /\ UNCHANGED <<creds, smtp, prices, alerts, resp, calls, everSent, input>>

NextNorm ==
    \/ ApplyStructured
    \/ ApplyJsonLd
    \/ ApplySelector
    \/ ApplyRawScan

SpecNorm == InitNorm /\ [][NextNorm]_vars

\* ================================================================ claims

HasDigit(s) == \E i \in 1..Len(s) : s[i] \in Digits

\* a field value a price can be read from
UsableValue(v) == v.t = "num" \/ (v.t = "str" /\ HasDigit(v.s))

\* the same, a zero amount left aside
PositiveUsable(v) == (v.t = "num" /\ v.n.m > 0) \/ (v.t = "str" /\ HasDigit(v.s))

\* the field the priority order reaches: buybox_winner.price when truthy,
\* else price, else buybox.price when price is None and the key is there
PriorityField(c) ==
    IF Truthy(c.bw) THEN c.bw
    ELSE IF c.pr # None THEN c.pr
    ELSE IF c.hasbb THEN c.bb
    ELSE None

ExpectedAmount(v) == IF v.t = "num" THEN v.n ELSE NormStructured(v.s).n

\* the structured query was sent and answered with a success
StructuredSuccess ==
    /\ output # None
    /\ creds
    /\ input.country \in DOMAIN COUNTRY_TO_DOMAIN
    /\ ~input.up.r1.raised
    /\ input.up.r1.status < 400

OneStructuredRequest ==
    Len(output.reqs) = 1 /\ output.reqs[1].source = "amazon_product"

HtmlRequested == \E k \in 1..Len(output.reqs) : output.reqs[k].source = "amazon"

\* C1 as stated: whenever the structured success carries a usable price in
\* buybox_winner.price, price or buybox.price, the resolver returns a quote in
\* EUR after exactly one request (no HTML fallback).
C1_AnyUsableFieldStopsAtStructured ==
    ( /\ StructuredSuccess
      /\ input.up.r1.body.kind = "dict"
      /\ \/ PositiveUsable(input.up.r1.body.bw)
         \/ PositiveUsable(input.up.r1.body.pr)
         \/ input.up.r1.body.hasbb /\ PositiveUsable(input.up.r1.body.bb) )
    => /\ IsQuote(output.out)
       /\ output.out.v.currency = "EUR"
       /\ OneStructuredRequest

\* C1 amended: whenever the field the priority order reaches holds a usable
\* price, the resolver returns that price in EUR after exactly one request,
\* the structured one, and sends no HTML fallback request.
C1_PriorityFieldStopsAtStructured ==
    ( /\ StructuredSuccess
      /\ input.up.r1.body.kind = "dict"
      /\ UsableValue(PriorityField(input.up.r1.body)) )
    => /\ output.out = Return(Quote(ExpectedAmount(PriorityField(input.up.r1.body))))
       /\ OneStructuredRequest
       /\ ~HtmlRequested

\* a price taken from buybox.price, the last field of the order, in one request
C1_Witness ==
    /\ StructuredSuccess
    /\ input.up.r1.body.bw = None /\ input.up.r1.body.pr = None
    /\ input.up.r1.body.hasbb /\ input.up.r1.body.bb = Str(TextEur1550)
    /\ output.out = Return(Quote(A1550))
    /\ OneStructuredRequest

\* a page whose only price is in a legacy price-block element
LegacyOnly(page) ==
    /\ page.ld = <<>>
    /\ \A i \in 1..Len(Selectors) :
          NodeText(page, Selectors[i]) # <<>> => Selectors[i] \in LegacySelectors
    /\ \E sel \in LegacySelectors : HasDigit(NodeText(page, sel))
    /\ RawScan(page.body) = None

\* C2 as stated: after a structured success with no price field populated,
\* the resolver sends the HTML fetch and, the page holding a price only in a
\* legacy price-block element, returns that price as the quote's amount.
C2_LegacyPriceBlockIsReturned ==
    ( /\ StructuredSuccess
      /\ input.up.r1.body = NoFields
      /\ ~input.up.r2.raised /\ input.up.r2.status < 400
      /\ LegacyOnly(input.up.r2.body) )
    => /\ HtmlRequested
       /\ HtmlPrice(input.up.r2.body) # None
       /\ output.out = Return(Quote(HtmlPrice(input.up.r2.body).n))

\* C3: with the credentials missing the call fails with no request sent; on a
\* structured status >= 400 it fails after that one request; the HTML fetch is
\* sent only after a structured success that yields no price; no request is
\* sent twice.
C3_UpstreamFailureStops ==
    output # None =>
        /\ ~creds => output.out = Raise("HTTPException", 500) /\ output.reqs = <<>>
        /\ ( /\ creds
             /\ input.country \in DOMAIN COUNTRY_TO_DOMAIN
             /\ ~input.up.r1.raised
             /\ input.up.r1.status >= 400 )
           => output.out = Raise("HTTPException", 502) /\ OneStructuredRequest
        /\ HtmlRequested =>
              /\ StructuredSuccess
              /\ \/ input.up.r1.body.kind # "dict"
                 \/ ~UsableValue(PriorityField(input.up.r1.body))
        /\ Len(output.reqs) <= 2
        /\ Len(output.reqs) = 2 => output.reqs[1] # output.reqs[2]

\* a structured 400 that ended the call after its single request
C3_Witness ==
    /\ output # None
    /\ creds
    /\ input.country = "FR"
    /\ ~input.up.r1.raised /\ input.up.r1.status = 400
    /\ ~input.up.r2.raised /\ input.up.r2.status = 200
    /\ output.out = Raise("HTTPException", 502)
    /\ OneStructuredRequest

\* compare ran its loop, and no upstream call raised in transport
CompareRan ==
    /\ resp.op = "compare"
    /\ calls # <<>>
    /\ \A k \in 1..Len(calls) : calls[k].out.exc # "RequestException"

ComparedItems == IF resp.out.k = "return" THEN resp.out.v.items ELSE <<>>

MarketIndex(c) == CHOOSE k \in 1..Len(ALLOWED_COUNTRIES) : ALLOWED_COUNTRIES[k] = c

\* C4 as stated: whatever the markets' outcomes, a failing market is left out
\* and the loop goes on over the others; the list holds one entry per market
\* that was resolved, ascending by amount, equal amounts in market order.
C4_FailuresOmittedAndRanked ==
    CompareRan =>
        /\ Len(calls) = Len(ALLOWED_COUNTRIES)
        /\ resp.out.k = "return" \/ resp.out = Raise("HTTPException", 404)
        /\ Len(ComparedItems) = Cardinality({k \in 1..Len(calls) : IsQuote(calls[k].out)})
        /\ \A k \in 1..Len(calls) :
              IsQuote(calls[k].out) =>
                 \E n \in 1..Len(ComparedItems) :
                    /\ ComparedItems[n].country = calls[k].country
                    /\ ComparedItems[n].price = calls[k].out.v.price
        /\ \A m, n \in 1..Len(ComparedItems) :
              m < n =>
                 /\ ~AmountLt(ComparedItems[n].price, ComparedItems[m].price)
                 /\ ComparedItems[n].price = ComparedItems[m].price =>
                       MarketIndex(ComparedItems[m].country)
                          < MarketIndex(ComparedItems[n].country)

\* C5 as stated: all markets resolved and none with a price, compare raises
\* the 404; and it never returns an empty item list.
C5_AllFailedIsNotFound ==
    /\ ( /\ CompareRan
         /\ Len(calls) = Len(ALLOWED_COUNTRIES)
         /\ \A k \in 1..Len(calls) : ~IsQuote(calls[k].out) )
       => resp.out = Raise("HTTPException", 404)
    /\ (resp.op = "compare" /\ resp.out.k = "return") => resp.out.v.items # <<>>

\* alert i was resolved and its amount is at most its target
Due(cs, i) ==
    /\ IsQuote(cs[i].out)
    /\ cs[i].out.v.price.m * Pow10(alerts[i].target_price.e)
          <= alerts[i].target_price.m * Pow10(cs[i].out.v.price.e)

\* the sent list the claim describes, from alert i on
RECURSIVE DueAndDelivered(_)
DueAndDelivered(i) ==
    IF i > Len(alerts) THEN <<>>
    ELSE (IF Due(calls, i) /\ calls[i].send = "delivered"
          THEN <<[to |-> alerts[i].email, asin |-> alerts[i].asin,
                  country |-> alerts[i].country, price |-> calls[i].out.v.price]>>
          ELSE <<>>) \o DueAndDelivered(i + 1)

\* C6: a run evaluates every stored alert; send_email is called for exactly
\* the alerts resolved to an amount <= target, and the sent list holds exactly
\* those of them whose mail was delivered, in order.
C6_SentIffDueAndDelivered ==
    resp.op = "run_alerts" =>
        /\ resp.out.k = "return"
        /\ Len(calls) = Len(alerts)
        /\ \A i \in 1..Len(calls) : calls[i].send # "notcalled" <=> Due(calls, i)
        /\ resp.out.v.sent = DueAndDelivered(1)

\* an alert skipped (unresolved or above target), a later one at its target mailed
C6_Witness ==
    /\ resp.op = "run_alerts"
    /\ \E i, j \in 1..Len(calls) :
          /\ i < j
          /\ ~Due(calls, i)
          /\ alerts[i].country = "FR"
          /\ calls[j].send = "delivered"
          /\ calls[j].out.v.price = alerts[j].target_price
          /\ Len(resp.out.v.sent) = 1

SendFailed == \E i \in 1..Len(calls) : calls[i].send = "failed"

\* C7 as stated: a send_email failure propagates out of run_alerts, which then
\* returns no sent list.
C7_NotifierFailurePropagates ==
    (resp.op = "run_alerts" /\ SendFailed) => resp.out.k = "raise"

\* C7 amended: a send_email failure is caught in run_alerts: the alert is left
\* out of the sent list, the alerts after it are evaluated, and the run returns
\* its sent list.
C7_NotifierFailureSwallowed ==
    (resp.op = "run_alerts" /\ SendFailed) =>
        /\ resp.out.k = "return"
        /\ Len(calls) = Len(alerts)
        /\ Len(resp.out.v.sent)
              = Cardinality({i \in 1..Len(calls) : calls[i].send = "delivered"})

\* a refused mail, then a later alert mailed and listed
C7_Witness ==
    /\ resp.op = "run_alerts"
    /\ resp.out.k = "return"
    /\ \E i, j \in 1..Len(calls) :
          i < j /\ calls[i].send = "failed" /\ calls[j].send = "delivered"
    /\ Len(resp.out.v.sent) = 1

\* C8: only create_alert changes table alerts, and only by appending a row;
\* a run leaves it as it is and calls send_email for every alert resolved to
\* an amount <= target, those mailed in earlier runs included.
C8_AlertsKeptAndRefire ==
    [][ /\ resp'.op = "create_alert" =>
              /\ Len(alerts') = Len(alerts) + 1
              /\ SubSeq(alerts', 1, Len(alerts)) = alerts
        /\ resp'.op # "create_alert" => alerts' = alerts
        /\ resp'.op = "run_alerts" =>
              \A i \in 1..Len(alerts) : Due(calls', i) => calls'[i].send # "notcalled"
      ]_vars

\* an alert mailed before the last request is mailed again by the last run
C8_Witness ==
    /\ resp.op = "run_alerts"
    /\ \E i \in everSent : calls[i].send = "delivered"

Unmapped(i) == alerts[i].country \notin DOMAIN COUNTRY_TO_DOMAIN

\* C10: an alert on a market without a domain mapping is stored, and in every
\* run its resolution fails before any request (on the lookup, when the
\* credentials are set), no mail is sent for it, now or ever, and the other
\* alerts of the batch are evaluated.
C10_UnmappedMarketNeverFires ==
    /\ \A i \in Mailed : ~Unmapped(i)
    /\ resp.op = "run_alerts" =>
          /\ Len(calls) = Len(alerts)
          /\ \A i \in 1..Len(calls) :
                Unmapped(i) =>
                   /\ calls[i].out.k = "raise"
                   /\ creds => calls[i].out.exc = "KeyError"
                   /\ calls[i].reqs = <<>>
                   /\ calls[i].send = "notcalled"
          /\ resp.out.k = "return"
          /\ \A n \in 1..Len(resp.out.v.sent) :
                resp.out.v.sent[n].country \in DOMAIN COUNTRY_TO_DOMAIN

\* a stored "ANY" alert skipped on the lookup, the alert after it mailed
C10_Witness ==
    /\ resp.op = "run_alerts"
    /\ \E i, j \in 1..Len(calls) :
          /\ i < j
          /\ alerts[i].country = "ANY"
          /\ calls[i].out = Raise("KeyError", 0)
          /\ calls[j].send = "delivered"

\* C9 as stated: every amount the normalisation yields, whatever the shape of
\* its input, is non-negative and has at most 2 fractional digits.
C9_AmountsTwoDecimalsNonNegative ==
    (output # None /\ output.price # None) =>
        output.price.n.m >= 0 /\ output.price.n.e <= 2

=============================================================================
